---- MODULE Spec2Model ----
(***************************************************************************)
(* Model of lib/src/prediction.rs: the Prediction job slot, the future     *)
(* returned by Prediction::process, and the SyncGuard that wraps exclusive *)
(* access to the slot.                                                     *)
(*                                                                         *)
(* Exclusive access.  process() returns a future that borrows the          *)
(* Prediction mutably (`impl Future + '_`), run() holds `&mut self` across *)
(* its await, and a SyncGuard owns the RwLock write guard.  No other       *)
(* method of the Prediction can therefore be called while such a future is *)
(* alive, and only the guard's own init/run can be called while a guard    *)
(* exists.  The actions below carry these conditions as guards.            *)
(***************************************************************************)
EXTENDS Integers, Sequences, FiniteSets, TLC

\* ---- bounds of the model -------------------------------------------------
NumIds      == 2   \* distinct id strings
NumInputs   == 2   \* distinct request inputs
NumOutputs  == 2   \* distinct engine outputs
MaxCancel   == 2   \* cap on signals pending in the unbounded cancel channel

Ids      == 1..NumIds
Inputs   == 1..NumInputs
Outputs  == 1..NumOutputs

\* ---- Option, Result ------------------------------------------------------
None      == <<>>
Some(v)   == <<v>>
unwrap(o) == o[1]

Ok(v)     == <<"Ok", v>>
Err(e)    == <<"Err", e>>
Panic     == <<"Panic", "unwrap">>
Pending   == <<"Pending", "recv_async">>
Unit      == "()"
IsOk(r)   == r[1] = "Ok"
IsErr(r, e) == r[1] = "Err" /\ r[2] = e

Request   == [input : Inputs]
OptIds    == {None} \cup {Some(i) : i \in Ids}

VARIABLES
  p,         \* the Prediction: status, id, request, response, complete, cancel
  fut,       \* the live future of process(): None or Some([by, req])
  guard,     \* a SyncGuard exists (it owns the write lock)
  shutdown,  \* the shutdown signal has fired
  engine,    \* behaviour of the engine: "normal" or "blocking"
  waiter,    \* a caller of wait_for(id) queued on the read lock: None or Some(id)
  live,      \* history: lifecycles started by init and not yet ended by reset
  job,       \* history: what init was given, what the engine and run() returned
  last       \* history: the last call, the state before it and what it returned

vars == <<p, fut, guard, shutdown, engine, waiter, live, job, last>>

\* ---- Response constructors (prediction.rs 260-295) ------------------------
Response_default ==
  [id |-> None, input |-> None, output |-> None, status |-> "Starting", error |-> None]

\* Variant: the request's input is not echoed.
Response_success_noinput(id, req, output) ==
  [Response_default EXCEPT !.id = id, !.output = Some(output), !.status = "Succeeded"]

Response_success(id, req, output) ==
  [Response_default EXCEPT !.id = id, !.output = Some(output),
                           !.input = Some(req.input), !.status = "Succeeded"]

Response_error(id, req, error) ==
  [Response_default EXCEPT !.id = id, !.input = Some(req.input),
                           !.status = "Failed", !.error = Some(error)]

Response_canceled(id, req) ==
  [Response_default EXCEPT !.id = id, !.input = Some(req.input),
                           !.status = "Canceled"]

\* ---- Prediction ----------------------------------------------------------
\* complete is None or Some([q, tx]): q is the content of the bounded(1)
\* channel whose receiver the field holds, tx tells whether the sender
\* (owned by the future of process) is still alive.
\* cancel is the number of signals pending in the unbounded channel whose
\* receiver the runner holds.
setup ==
  [status |-> "Idle", id |-> None, request |-> None, response |-> None,
   complete |-> None, cancel |-> 0]

\* Variant: the request survives the reset.
reset_keeprequest(s) ==
  [s EXCEPT !.id = None, !.response = None, !.complete = None, !.status = "Idle"]

reset(s) ==
  [s EXCEPT !.id = None, !.request = None, !.response = None,
            !.complete = None, !.status = "Idle"]

\* Variant: the request is not stored.
init_norequest(s, id, req) ==
  IF s.status # "Idle"
  THEN [p |-> s, ret |-> Err("AlreadyRunning")]
  ELSE [p |-> [s EXCEPT !.id = id, !.status = "Starting"], ret |-> Ok(Unit)]

\* Variant: the status is not checked.
init_nocheck(s, id, req) ==
  [p |-> [s EXCEPT !.id = id, !.request = Some(req), !.status = "Starting"],
   ret |-> Ok(Unit)]

init(s, id, req) ==
  IF s.status # "Idle"
  THEN [p |-> s, ret |-> Err("AlreadyRunning")]
  ELSE [p |-> [s EXCEPT !.id = id, !.request = Some(req), !.status = "Starting"],
        ret |-> Ok(Unit)]

\* Variant: the status is set before the input is validated.
process_eager(s, valid) ==
  IF s.status # "Starting" THEN [p |-> s, ret |-> Err("AlreadyRunning")]
  ELSE IF s.request = None THEN [p |-> s, ret |-> Panic]
  ELSE IF ~valid THEN [p |-> [s EXCEPT !.status = "Processing"],
                       ret |-> Err("Validation")]
  ELSE [p |-> [s EXCEPT !.status = "Processing",
                        !.complete = Some([q |-> <<>>, tx |-> TRUE])],
        ret |-> Ok(unwrap(s.request))]

\* Variant: the receiver of the completion channel is not kept.
process_nochannel(s, valid) ==
  IF s.status # "Starting" THEN [p |-> s, ret |-> Err("AlreadyRunning")]
  ELSE IF s.request = None THEN [p |-> s, ret |-> Panic]
  ELSE IF ~valid THEN [p |-> s, ret |-> Err("Validation")]
  ELSE [p |-> [s EXCEPT !.status = "Processing"], ret |-> Ok(unwrap(s.request))]

\* The synchronous part of process(); valid is the verdict of runner.validate.
\* On success ret carries the request captured by the returned future.
process(s, valid) ==
  IF s.status # "Starting" THEN [p |-> s, ret |-> Err("AlreadyRunning")]
  ELSE IF s.request = None THEN [p |-> s, ret |-> Panic]
  ELSE IF ~valid THEN [p |-> s, ret |-> Err("Validation")]
  ELSE [p |-> [s EXCEPT !.status = "Processing",
                        !.complete = Some([q |-> <<>>, tx |-> TRUE])],
        ret |-> Ok(unwrap(s.request))]

\* The sender of the completion channel dies with the future that owns it.
drop_complete_tx(s) ==
  IF s.complete = None THEN s
  ELSE [s EXCEPT !.complete = Some([unwrap(s.complete) EXCEPT !.tx = FALSE])]

\* Variant: the shutdown branch marks the job as canceled.
race_shutdown_cancels(s) ==
  [p |-> drop_complete_tx([s EXCEPT !.status = "Canceled"]), ret |-> Ok(Unit)]

\* select!: the shutdown branch wins; the async block returns at once.
race_shutdown(s) ==
  [p |-> drop_complete_tx(s), ret |-> Ok(Unit)]

\* select!: the runner.run branch wins with `out`, then the response is sent.
\* out is <<"Ok", o>>, <<"Err", "Canceled">> or <<"Err", "Failed">>.
race_engine(s, req, out) ==
  LET s1 == IF out[1] = "Ok"
            THEN [s EXCEPT !.status = "Succeeded",
                           !.response = Some(Response_success(s.id, req, out[2]))]
            ELSE IF out[2] = "Canceled"
            THEN [s EXCEPT !.status = "Canceled",
                           !.response = Some(Response_canceled(s.id, req))]
            ELSE [s EXCEPT !.status = "Failed",
                           !.response = Some(Response_error(s.id, req, out[2]))]
  IN IF s1.response = None \/ s1.complete = None
     THEN [p |-> s1, ret |-> Panic]
     ELSE IF Len(unwrap(s1.complete).q) >= 1
     THEN [p |-> s1, ret |-> Pending]
     ELSE [p |-> drop_complete_tx(
                   [s1 EXCEPT !.complete =
                      Some([unwrap(s1.complete) EXCEPT !.q = <<unwrap(s1.response)>>])]),
           ret |-> Ok(Unit)]

result(s) ==
  IF s.status \notin {"Succeeded", "Failed"}
  THEN [p |-> s, ret |-> Err("NotComplete")]
  ELSE IF s.response = None THEN [p |-> s, ret |-> Err("NotComplete")]
  ELSE [p |-> reset(s), ret |-> Ok(unwrap(s.response))]

\* Variant: the status is not checked.
cancel_anystatus(s, id) ==
  IF s.id # Some(id) THEN [p |-> s, ret |-> Err("Unknown")]
  ELSE [p |-> [s EXCEPT !.cancel = @ + 1, !.status = "Canceled"], ret |-> Ok(Unit)]

\* Variant: the signal is sent before the status is checked.
cancel_sendfirst(s, id) ==
  IF s.id # Some(id) THEN [p |-> s, ret |-> Err("Unknown")]
  ELSE IF s.status # "Processing"
  THEN [p |-> [s EXCEPT !.cancel = @ + 1], ret |-> Err("AlreadyRunning")]
  ELSE [p |-> [s EXCEPT !.cancel = @ + 1, !.status = "Canceled"], ret |-> Ok(Unit)]

cancel(s, id) ==
  IF s.id # Some(id) THEN [p |-> s, ret |-> Err("Unknown")]
  ELSE IF s.status # "Processing" THEN [p |-> s, ret |-> Err("AlreadyRunning")]
  ELSE [p |-> [s EXCEPT !.cancel = @ + 1, !.status = "Canceled"], ret |-> Ok(Unit)]

\* Variant: the cached response is looked at before the id.
wait_for_cachefirst(s, id) ==
  IF s.response # None THEN [p |-> s, ret |-> Ok(unwrap(s.response))]
  ELSE IF s.id # Some(id) THEN [p |-> s, ret |-> Err("Unknown")]
  ELSE IF s.status # "Processing" THEN [p |-> s, ret |-> Err("AlreadyRunning")]
  ELSE IF s.complete = None THEN [p |-> s, ret |-> Panic]
  ELSE IF ~unwrap(s.complete).tx THEN [p |-> s, ret |-> Err("Unknown")]
  ELSE [p |-> s, ret |-> Pending]

wait_for(s, id) ==
  IF s.id # Some(id) THEN [p |-> s, ret |-> Err("Unknown")]
  ELSE IF s.response # None THEN [p |-> s, ret |-> Ok(unwrap(s.response))]
  ELSE IF s.status # "Processing" THEN [p |-> s, ret |-> Err("AlreadyRunning")]
  ELSE IF s.complete = None THEN [p |-> s, ret |-> Panic]
  ELSE IF ~unwrap(s.complete).tx THEN [p |-> s, ret |-> Err("Unknown")]
  ELSE IF unwrap(s.complete).q = <<>> THEN [p |-> s, ret |-> Pending]
  ELSE [p |-> [s EXCEPT !.complete = Some([unwrap(s.complete) EXCEPT !.q = <<>>])],
        ret |-> Ok(unwrap(s.complete).q[1])]

\* Variant: the signal is sent but the slot is not reset.
drop_noreset(s) == [s EXCEPT !.cancel = @ + 1]

\* impl Drop for SyncGuard
drop(s) == reset([s EXCEPT !.cancel = @ + 1])

\* run(): `self.process()?.await; self.result()`.  The part after the await
\* runs in the same poll as the end of the race.
run_finish(r) ==
  IF IsOk(r.ret) THEN result(r.p) ELSE r

\* ---- the engine (runner.rs, not part of this file) -------------------------
\* runner.validate accepts or rejects; runner.run ends with an output, with the
\* Canceled error after taking a signal from the cancel channel, or with
\* another error.  A blocking engine ends only through cancellation.
runner_validate == BOOLEAN

runner_run(s) ==
  (IF s.cancel > 0 THEN {Err("Canceled")} ELSE {})
  \cup (IF engine = "blocking" THEN {}
        ELSE {Ok(o) : o \in Outputs} \cup {Err("Failed")})

runner_take(s, out) ==
  IF out = Err("Canceled") THEN [s EXCEPT !.cancel = @ - 1] ELSE s

\* ---- history ---------------------------------------------------------------
Call(op, arg, pre, f, out, ret) ==
  [op |-> op, arg |-> arg, pre |-> pre, fut |-> f, out |-> out, ret |-> ret]

NoArg == None
NoOut == <<"None", "None">>
\* job: id and req given to init, stale = signals pending in the cancel channel
\* at that init, guarded = init went through a SyncGuard, out = what the engine
\* returned, stored/sent = the response stored and the values sent on the
\* completion channel by the race, ret = what run() returned, waited = what
\* the last successful wait_for returned.
NoJob == [id |-> None, req |-> None, stale |-> 0, guarded |-> FALSE,
          out |-> NoOut, stored |-> None, sent |-> <<>>, ret |-> NoOut,
          waited |-> NoOut]

\* ---- the state machine -------------------------------------------------------
\* The lock is free and nobody is queued on it: a caller can take it.
Free == ~guard /\ fut = None /\ waiter = None

Init ==
  /\ p = setup
  /\ fut = None
  /\ guard = FALSE
  /\ shutdown = FALSE
  /\ engine \in {"normal", "blocking"}
  /\ waiter = None
  /\ live = 0
  /\ job = NoJob
  /\ last = Call("setup", NoArg, setup, None, NoOut, Ok(Unit))

\* SyncGuard::new: the caller obtained the write lock.
NewGuard ==
  /\ Free
  /\ guard' = TRUE
  /\ last' = Call("SyncGuard::new", NoArg, p, fut, NoOut, Ok(Unit))
  /\ UNCHANGED <<p, fut, shutdown, engine, waiter, live, job>>

\* Prediction::init, directly or through SyncGuard::init.
InitCall ==
  /\ fut = None /\ (guard \/ waiter = None)
  /\ \E id \in OptIds, req \in Request :
       LET r == init(p, id, req) IN
       /\ p' = r.p
       /\ live' = IF IsOk(r.ret) THEN live + 1 ELSE live
       /\ job' = IF IsOk(r.ret)
                 THEN [NoJob EXCEPT !.id = id, !.req = Some(req),
                                    !.stale = p.cancel, !.guarded = guard]
                 ELSE job
       /\ last' = Call("init", <<id, req>>, p, fut, NoOut, r.ret)
  /\ UNCHANGED <<fut, guard, shutdown, engine, waiter>>

\* Prediction::process called on its own: the caller keeps the future.
ProcessCall ==
  /\ Free
  /\ \E valid \in runner_validate :
       LET r == process(p, valid) IN
       /\ p' = r.p
       /\ fut' = IF IsOk(r.ret) THEN Some([by |-> "process", req |-> r.ret[2]]) ELSE None
       /\ last' = Call("process", <<valid>>, p, fut, NoOut,
                       IF IsOk(r.ret) THEN Ok(Unit) ELSE r.ret)
  /\ UNCHANGED <<guard, shutdown, engine, waiter, live, job>>

\* Prediction::run up to its await, directly or through SyncGuard::run.
RunCall ==
  /\ fut = None /\ (guard \/ waiter = None)
  /\ \E valid \in runner_validate :
       LET r == process(p, valid) IN
       /\ p' = r.p
       /\ fut' = IF IsOk(r.ret) THEN Some([by |-> "run", req |-> r.ret[2]]) ELSE None
       /\ last' = Call("run", <<valid>>, p, fut, NoOut,
                       IF IsOk(r.ret) THEN Pending ELSE r.ret)
  /\ UNCHANGED <<guard, shutdown, engine, waiter, live, job>>

\* The engine wins the race of the live future.
EngineDone ==
  /\ fut # None
  /\ \E out \in runner_run(p) :
       LET f  == unwrap(fut)
           r  == race_engine(runner_take(p, out), f.req, out)
           rr == IF f.by = "run" THEN run_finish(r) ELSE r
       IN
       /\ p' = rr.p
       /\ live' = IF f.by = "run" /\ IsOk(rr.ret) THEN 0 ELSE live
       /\ job' = [job EXCEPT !.out = out,
                             !.stored = r.p.response,
                             !.sent = IF r.p.complete = None THEN <<>>
                                      ELSE unwrap(r.p.complete).q,
                             !.ret = IF f.by = "run" THEN rr.ret ELSE @]
       /\ last' = Call(IF f.by = "run" THEN "run_engine" ELSE "process_engine",
                       NoArg, p, fut, out, rr.ret)
  /\ fut' = None
  /\ UNCHANGED <<guard, shutdown, engine, waiter>>

\* The shutdown signal fires (once, for good).
ShutdownFire ==
  /\ ~shutdown
  /\ shutdown' = TRUE
  /\ UNCHANGED <<p, fut, guard, engine, waiter, live, job, last>>

\* The shutdown branch wins the race of the live future.
ShutdownWins ==
  /\ fut # None /\ shutdown
  /\ LET f  == unwrap(fut)
         r  == race_shutdown(p)
         rr == IF f.by = "run" THEN run_finish(r) ELSE r
     IN
     /\ p' = rr.p
     /\ live' = IF f.by = "run" /\ IsOk(rr.ret) THEN 0 ELSE live
     /\ job' = [job EXCEPT !.stored = r.p.response,
                           !.sent = IF r.p.complete = None THEN <<>>
                                    ELSE unwrap(r.p.complete).q,
                           !.ret = IF f.by = "run" THEN rr.ret ELSE @]
     /\ last' = Call(IF f.by = "run" THEN "run_shutdown" ELSE "process_shutdown",
                     NoArg, p, fut, NoOut, rr.ret)
  /\ fut' = None
  /\ UNCHANGED <<guard, shutdown, engine, waiter>>

\* The holder of the future drops it before it completed.
Abandon ==
  /\ fut # None
  /\ p' = drop_complete_tx(p)
  /\ fut' = None
  /\ last' = Call("abandon", NoArg, p, fut, NoOut, Ok(Unit))
  /\ UNCHANGED <<guard, shutdown, engine, waiter, live, job>>

ResultCall ==
  /\ Free
  /\ LET r == result(p) IN
     /\ p' = r.p
     /\ live' = IF IsOk(r.ret) THEN 0 ELSE live
     /\ last' = Call("result", NoArg, p, fut, NoOut, r.ret)
  /\ UNCHANGED <<fut, guard, shutdown, engine, waiter, job>>

CancelCall ==
  /\ Free
  /\ p.cancel < MaxCancel
  /\ \E id \in Ids :
       LET r == cancel(p, id) IN
       /\ p' = r.p
       /\ last' = Call("cancel", <<id>>, p, fut, NoOut, r.ret)
  /\ UNCHANGED <<fut, guard, shutdown, engine, waiter, live, job>>

WaitForCall ==
  /\ Free
  /\ \E id \in Ids :
       LET r == wait_for(p, id) IN
       /\ p' = r.p
       /\ job' = IF IsOk(r.ret) THEN [job EXCEPT !.waited = r.ret] ELSE job
       /\ last' = Call("wait_for", <<id>>, p, fut, NoOut, r.ret)
  /\ UNCHANGED <<fut, guard, shutdown, engine, waiter, live>>

\* While a guarded run() is in flight a second caller asks for wait_for(id)
\* of that job through the shared handle: it queues on the read lock.
WaiterArrive ==
  /\ guard /\ fut # None /\ waiter = None
  /\ unwrap(fut).by = "run"
  /\ \E id \in Ids :
       /\ p.id = Some(id)
       /\ waiter' = Some(id)
  /\ UNCHANGED <<p, fut, guard, shutdown, engine, live, job, last>>

\* The queued caller obtains the read lock, first in line once it is released.
WaiterRun ==
  /\ waiter # None /\ ~guard /\ fut = None
  /\ LET r == wait_for(p, unwrap(waiter)) IN
     /\ p' = r.p
     /\ job' = IF IsOk(r.ret) THEN [job EXCEPT !.waited = r.ret] ELSE job
     /\ last' = Call("wait_for_queued", <<unwrap(waiter)>>, p, fut, NoOut, r.ret)
  /\ waiter' = None
  /\ UNCHANGED <<fut, guard, shutdown, engine, live>>

\* The SyncGuard is dropped; a run future borrowed from it is dropped first.
DropGuard ==
  /\ guard
  /\ p.cancel < MaxCancel
  /\ p' = drop(drop_complete_tx(p))
  /\ fut' = None
  /\ guard' = FALSE
  /\ live' = 0
  /\ last' = Call("drop", NoArg, p, fut, NoOut, Ok(Unit))
  /\ UNCHANGED <<shutdown, engine, waiter, job>>

Next ==
  \/ NewGuard
  \/ InitCall
  \/ ProcessCall
  \/ RunCall
  \/ EngineDone
  \/ ShutdownFire
  \/ ShutdownWins
  \/ Abandon
  \/ ResultCall
  \/ CancelCall
  \/ WaitForCall
  \/ WaiterArrive
  \/ WaiterRun
  \/ DropGuard

Spec == Init /\ [][Next]_vars

Terminal == {"Succeeded", "Failed", "Canceled"}

\* ==== C1 ======================================================================
\* C1: init(id, req) succeeds exactly when status is Idle, and then stores id
\* and request and sets status to Starting; in every other status it returns
\* AlreadyRunning and leaves the whole Prediction unchanged.
C1_InitOnlyFromIdle ==
  last.op = "init" =>
    IF last.pre.status = "Idle"
    THEN /\ IsOk(last.ret)
         /\ p = [last.pre EXCEPT !.id = last.arg[1], !.request = Some(last.arg[2]),
                                 !.status = "Starting"]
    ELSE /\ IsErr(last.ret, "AlreadyRunning")
         /\ p = last.pre

\* init is refused in a terminal status that result() has not yet consumed.
C1_Witness ==
  /\ last.op = "init"
  /\ last.pre.status = "Succeeded"
  /\ IsErr(last.ret, "AlreadyRunning")

\* ==== C2 ======================================================================
\* C2: single-flight: at most one lifecycle started by init is live (not yet
\* ended by result() or by the guard's reset), the slot is Idle exactly when
\* none is, and a live future of process() (an engine run in progress) belongs
\* to the one live lifecycle, which is Processing.
C2_SingleFlight ==
  /\ live <= 1
  /\ (live = 0) <=> (p.status = "Idle")
  /\ fut # None => (p.status = "Processing" /\ live = 1)
  /\ (last.op = "init" /\ IsOk(last.ret)) => last.pre.status = "Idle"

\* A second job is refused while the engine run of the first was abandoned.
C2_Witness ==
  /\ last.op = "init" /\ ~IsOk(last.ret)
  /\ p.status = "Processing"
  /\ live = 1

\* ==== C3 ======================================================================
\* C3: round trip: after init(id, req) and a process() whose engine returned
\* output O, result() returns the Response {status Succeeded, output O,
\* input req.input, id} and leaves the slot Idle, and a result() on the Idle
\* slot fails with NotComplete.
C3_RoundTrip ==
  /\ (last.op = "result" /\ last.pre.status = "Succeeded" /\ job.out[1] = "Ok") =>
       /\ IsOk(last.ret)
       /\ last.ret[2].status = "Succeeded"
       /\ last.ret[2].output = Some(job.out[2])
       /\ last.ret[2].input = Some(unwrap(job.req).input)
       /\ last.ret[2].id = job.id
       /\ p.status = "Idle"
  /\ (last.op = "result" /\ last.pre.status = "Idle") =>
       /\ IsErr(last.ret, "NotComplete")
       /\ p = last.pre

\* result() returned the response of a succeeded job.
C3_Witness ==
  /\ last.op = "result" /\ last.pre.status = "Succeeded"
  /\ IsOk(last.ret)
  /\ job.out = Ok(2)
  /\ p.status = "Idle"

\* ==== C4 ======================================================================
\* C4: result() in any of Succeeded, Failed, Canceled returns the stored
\* response and resets the slot to Idle; in Idle, Starting, Processing it fails
\* with NotComplete and changes nothing.
C4_ResultInTerminal ==
  last.op = "result" =>
    IF last.pre.status \in Terminal
    THEN /\ IsOk(last.ret)
         /\ Some(last.ret[2]) = last.pre.response
         /\ p = reset(last.pre)
    ELSE /\ IsErr(last.ret, "NotComplete")
         /\ p = last.pre

\* ==== C5 ======================================================================
\* C5: whenever the engine wins the race, whatever its outcome, run() returns
\* the terminal Response of that outcome and leaves the slot Idle.
OutcomeStatus(out) ==
  IF out[1] = "Ok" THEN "Succeeded"
  ELSE IF out[2] = "Canceled" THEN "Canceled" ELSE "Failed"

C5_RunReturnsTerminal ==
  last.op = "run_engine" =>
    /\ IsOk(last.ret)
    /\ last.ret[2].status = OutcomeStatus(last.out)
    /\ p.status = "Idle"

\* ==== C6 ======================================================================
\* C6: cancel(id) with the current id while Processing sends one signal and
\* sets status to Canceled at once; with the current id in any other status it
\* fails with AlreadyRunning, sends nothing and changes nothing.
C6_CancelOnlyWhileProcessing ==
  (last.op = "cancel" /\ last.pre.id = Some(last.arg[1])) =>
    IF last.pre.status = "Processing"
    THEN /\ IsOk(last.ret)
         /\ p = [last.pre EXCEPT !.cancel = @ + 1, !.status = "Canceled"]
    ELSE /\ IsErr(last.ret, "AlreadyRunning")
         /\ p = last.pre

\* A second cancel of the same job: refused, no second signal.
C6_Witness ==
  /\ last.op = "cancel" /\ last.pre.id = Some(last.arg[1])
  /\ last.pre.status = "Canceled"
  /\ IsErr(last.ret, "AlreadyRunning")
  /\ p.cancel = 1

\* ==== C7 ======================================================================
\* C7: cancel(id) and wait_for(id) with an id other than the current one fail
\* with Unknown in every status, before any look at the status, and change
\* nothing (no signal is sent).
C7_MismatchedIdUnknown ==
  (last.op \in {"cancel", "wait_for", "wait_for_queued"}
     /\ last.pre.id # Some(last.arg[1])) =>
    /\ IsErr(last.ret, "Unknown")
    /\ p = last.pre

\* wait_for with another id while a response is cached.
C7_Witness ==
  /\ last.op = "wait_for"
  /\ last.pre.id # None /\ last.pre.id # Some(last.arg[1])
  /\ last.pre.response # None
  /\ IsErr(last.ret, "Unknown")

\* ==== C8 ======================================================================
\* C8: with an engine that blocks until cancelled, a wait_for(id) of the
\* current job made while it is Processing does not return an error: it waits,
\* and resolves to a Response whose status is Canceled.
C8_WaitForResolvesCanceled ==
  (engine = "blocking" /\ last.op = "wait_for"
     /\ last.pre.status = "Processing" /\ last.pre.id = Some(last.arg[1])) =>
    \/ last.ret = Pending
    \/ IsOk(last.ret) /\ last.ret[2].status = "Canceled"

\* ==== C9 ======================================================================
\* C9: a wait_for(id) made through the shared handle while a guarded run() of
\* that job is in flight obtains the same terminal Response as run(), and does
\* not itself reset the slot.
C9_BothObserveSameResponse ==
  (last.op = "wait_for_queued" /\ IsOk(job.ret)) =>
    /\ last.ret = job.ret
    /\ p = last.pre

\* ==== C10 =====================================================================
\* C10: when the shutdown branch wins the race of a Processing job, the race
\* ends with status still Processing, no response stored and nothing in the
\* completion channel.
C10_ShutdownLeavesProcessing ==
  last.op \in {"process_shutdown", "run_shutdown"} =>
    /\ last.pre.status = "Processing"
    /\ p.status = "Processing"
    /\ p.response = None
    /\ p.complete # None
    /\ unwrap(p.complete).q = <<>>

\* Shutdown won the race of a future obtained from process().
C10_Witness ==
  /\ last.op = "process_shutdown"
  /\ shutdown
  /\ p.status = "Processing"

\* ==== C11 =====================================================================
\* C11: when validate rejects the input of a Starting job, process() and run()
\* return a Validation error, no future (no engine run) is started, and the
\* Prediction is unchanged: status Starting, id and request retained, no
\* completion channel, no response; an init on a Starting slot is refused with
\* AlreadyRunning.
C11_ValidationKeepsStarting ==
  /\ (last.op \in {"process", "run"} /\ last.pre.status = "Starting"
        /\ last.arg[1] = FALSE) =>
       /\ IsErr(last.ret, "Validation")
       /\ fut = None
       /\ p = last.pre
       /\ p.status = "Starting" /\ p.request # None
       /\ p.complete = None /\ p.response = None
  /\ (last.op = "init" /\ last.pre.status = "Starting") =>
       /\ IsErr(last.ret, "AlreadyRunning")
       /\ p = last.pre

\* run() through the guard was refused by validate.
C11_Witness ==
  /\ last.op = "run" /\ guard
  /\ IsErr(last.ret, "Validation")
  /\ p.status = "Starting"

\* ==== C12 =====================================================================
\* C12: dropping the SyncGuard, in whatever status, sends one cancellation
\* signal and leaves status Idle, id, request, response and complete None, with
\* no future alive, so that init succeeds on the state it leaves.
C12_DropResets ==
  /\ last.op = "drop" =>
       /\ p = [setup EXCEPT !.cancel = last.pre.cancel + 1]
       /\ fut = None /\ ~guard
  /\ (last.op = "init" /\ last.pre = [setup EXCEPT !.cancel = last.pre.cancel]) =>
       IsOk(last.ret)

\* The guard was dropped while its run() was in flight.
C12_Witness ==
  /\ last.op = "drop"
  /\ last.fut # None
  /\ last.pre.status = "Processing"
  /\ p.status = "Idle"

\* ==== C13 =====================================================================
\* C13: whenever the slot is Idle again after a job, no cancellation signal is
\* pending, and an engine run that ends with Canceled took a signal sent after
\* the init of its job.
C13_NoStaleCancel ==
  /\ (p.status = "Idle" /\ job # NoJob) => p.cancel = 0
  /\ (last.op \in {"run_engine", "process_engine"} /\ last.out = Err("Canceled")) =>
       last.pre.cancel > job.stale

\* ==== C14 =====================================================================
\* C14: response is Some if and only if status is Succeeded, Failed or Canceled
\* (result() resets both together).
C14_ResponseIffTerminal ==
  (p.response # None) <=> (p.status \in Terminal)

\* ==== C15 =====================================================================
\* C15 (as claimed): request is Some if and only if status is Starting or
\* Processing.
C15_RequestIffActive ==
  (p.request # None) <=> (p.status \in {"Starting", "Processing"})

\* C15 (amended): request is Some if and only if status is not Idle: init
\* stores it, only reset clears it, so it is still present in Succeeded, Failed
\* and Canceled.
C15_RequestIffNotIdle ==
  (p.request # None) <=> (p.status # "Idle")

\* A terminal status with the request still stored.
C15_Witness ==
  /\ p.status = "Succeeded"
  /\ p.request # None
  /\ p.response # None

\* ==== C16 =====================================================================
\* C16: when a guarded init + run() has completed normally, dropping the guard
\* sends no cancellation signal and changes no field.
C16_NormalReleaseIsSilent ==
  (last.op = "drop" /\ job.guarded /\ IsOk(job.ret)
     /\ last.fut = None /\ last.pre.status = "Idle") =>
    p = last.pre

\* ==== C17 =====================================================================
\* C17: wait_for changes nothing; with the current id and a cached response it
\* returns that response; a result() after a successful wait_for returns the
\* same cached response and is what moves the slot to Idle.
C17_WaitForThenResult ==
  /\ last.op \in {"wait_for", "wait_for_queued"} =>
       /\ p = last.pre
       /\ (last.pre.id = Some(last.arg[1]) /\ last.pre.response # None) =>
            last.ret = Ok(unwrap(last.pre.response))
  /\ (last.op = "result" /\ job.waited # NoOut /\ last.pre.response # None) =>
       /\ last.ret = job.waited
       /\ p.status = "Idle"

\* ==== C18 =====================================================================
\* C18: when the engine wins the race, the completion channel was empty with
\* its receiver held in `complete`, the send neither blocks nor fails, and
\* exactly the stored response is sent; when shutdown wins nothing is sent; in
\* both cases the sender is dropped.
C18_PublishOnce ==
  /\ last.op \in {"process_engine", "run_engine"} =>
       /\ last.pre.complete = Some([q |-> <<>>, tx |-> TRUE])
       /\ last.ret # Panic /\ last.ret # Pending
       /\ job.stored # None
       /\ job.sent = <<unwrap(job.stored)>>
  /\ last.op = "process_engine" =>
       p.complete = Some([q |-> <<unwrap(p.response)>>, tx |-> FALSE])
  /\ last.op \in {"process_shutdown", "run_shutdown"} =>
       /\ job.sent = <<>>
       /\ p.complete = Some([q |-> <<>>, tx |-> FALSE])

\* The engine won with an error and the error response was published.
C18_Witness ==
  /\ last.op = "process_engine"
  /\ last.out = Err("Failed")
  /\ job.sent = <<unwrap(p.response)>>
  /\ p.status = "Failed"

\* ==== C19 =====================================================================
\* C19: whenever a response is stored, its status is the machine's status and
\* its id is the machine's id.
C19_NoTornTerminal ==
  p.response # None =>
    /\ unwrap(p.response).status = p.status
    /\ unwrap(p.response).id = p.id

\* cancel(id) of the current job arrived after the engine had completed.
C19_Witness ==
  /\ last.op = "cancel" /\ last.pre.id = Some(last.arg[1])
  /\ last.pre.response # None
  /\ p.response # None

\* ==== C20 =====================================================================
\* C20: no unwrap fails: request is Some whenever status is Starting, the
\* completion receiver is Some whenever status is Processing, and no call ends
\* in a panic.
C20_UnwrapsNeverFail ==
  /\ p.status = "Starting" => p.request # None
  /\ p.status = "Processing" => p.complete # None
  /\ last.ret # Panic
  /\ last.op \in {"process_engine", "run_engine"} => job.stored # None

\* wait_for of the current job reached the receiver while Processing.
C20_Witness ==
  /\ last.op = "wait_for"
  /\ last.pre.status = "Processing" /\ last.pre.id = Some(last.arg[1])
  /\ last.pre.complete # None
  /\ IsErr(last.ret, "Unknown")
====
